---- MODULE Spec2Model ----
(***************************************************************************)
(* A model of the places-search feature of ai-place-search:                *)
(*   - the navigation state kept in the URL (useNavigationState) and the   *)
(*     MapContainer component that drives routes and the geolocation       *)
(*     watch from it (NavSpec);                                            *)
(*   - the usePlacesSearch hook: the search query cache, the AI            *)
(*     classification mutations and the selection shared by the list and   *)
(*     the map (SearchSpec).                                               *)
(* A user event is one action: the handler, the render it causes and the   *)
(* effects of that render, as React runs them before the next event.       *)
(***************************************************************************)
EXTENDS Integers, Sequences, FiniteSets, TLC

Null == "null"
\* locationWatchIdRef holds no watch id (null; tested by truthiness).
NoWatch == 0
\* No route is drawn on the map.
NoRoute == [origin |-> Null, destination |-> Null]

\* ------------------------------------------------------------------ bounds
\* Watch ids the geolocation capability hands out: 1..MaxWatches.
MaxWatches == 2

\* Places a provider returns for one search: 0..NPlaces.
NPlaces == 2
\* Classification calls in flight at one time.
MaxInFlight == 2

\* ------------------------------------------------------------- value sets
PlaceIds == {"p1", "p2"}
Coords == {"c1", "c2"}
NavigationMode == {"none", "static", "live"}
\* Raw values of the `nav` and `destination` URL parameters (Null: absent).
NavParams == {Null, "none", "static", "live", "bogus"}
DestParams == {Null, ""} \cup PlaceIds

VARIABLES
  \* useNavigationState
  navigationMode, destinationId,
  \* MapContainer props
  center, markers,
  \* MapContainer refs
  locationWatchIdRef, directionsRendererRef, displayedRoute,
  \* what the info windows built by the last markers effect closed over
  capturedCenter, stopNavFor,
  \* the geolocation capability: the watches registered and the next id
  registeredWatches, nextWatchId,
  \* component lifetime and the alert raised by the last operation, if any
  mounted, lastAlert,
  \* the last operation performed (history)
  lastOp,
  \* usePlacesSearch state (selectedPlace: the selected place's id)
  searchParams, selectedPlace, enableAIAnalysis,
  \* the query cache: one search query per key
  queries,
  \* searchPlaces invocations awaiting their fetch
  waiting,
  \* classification mutations in flight
  mutations,
  \* usePlacesSearch filters
  filters,
  \* the browser's answer to every geolocation request of the session
  permission,
  \* the ['location', 'current'] query, shared by every useLocation instance
  locationQuery,
  \* getCurrentLocation calls in flight, and the calls made so far
  gpsInFlight, gpsCalls,
  \* useLocation's manualLocation, one per component that calls the hook
  manualLocation,
  \* PlacesSearchContainer: a state change awaits its render; the deps the
  \* mount effect last ran with; the searchPlaces invocations so far
  renderPending, mountEffectDeps, searchCalls,
  \* the ['location', 'coordinates', address] cache entries, the provider
  \* calls per address, and LocationInput's geocoding in flight (or Null)
  geocodeCache, geocodeCalls, geocoding,
  \* a provider search on its own: the candidate places, the minRating and
  \* keyword of the params, and what searchPlaces returned
  candidates, options, returned,
  \* the filtered view on its own: the fetched places and the view derived
  fetched, view,
  \* a classification on its own: the rating (in tenths) and review count
  \* classified, and the bucket each function of the program gave
  rated, buckets,
  \* the query string of the page: the `nav` and `destination` parameters
  url,
  \* the markers prop as the page derives it (filtered places, selection),
  \* the map object and the markers on it, for MapContainer and for useMap
  mapMarkers,
  \* useDebounce, one instance per use: the value passed at the last render,
  \* debouncedValue, and the value the pending timeout will set
  debounce,
  \* GoogleMapsLoader's statics, window.google, the script elements that are
  \* loading, the promises made and what each caller is left with
  loader

navVars == <<navigationMode, destinationId, center, markers,
             locationWatchIdRef, directionsRendererRef, displayedRoute,
             capturedCenter, stopNavFor, registeredWatches, nextWatchId,
             mounted, lastAlert, lastOp>>

searchVars == <<searchParams, selectedPlace, enableAIAnalysis, queries,
                waiting, mutations>>

locVars == <<permission, locationQuery, gpsInFlight, gpsCalls, manualLocation,
             renderPending, mountEffectDeps, searchCalls, geocodeCache,
             geocodeCalls, geocoding>>

fnVars == <<candidates, options, returned, fetched, view>>

classifyVars == <<rated, buckets>>

auxVars == <<classifyVars, url, mapMarkers, debounce, loader>>

restVars == <<locVars, fnVars, auxVars>>

vars == <<navVars, searchVars, filters, restVars>>

\* ---------------------------------------------------------- places, keys
PlaceTypes == {"restaurants"}
NoParams == [type |-> Null, location |-> Null]
\* PlaceSearchParams: the search query key is built from them.
SearchKeys == [type : PlaceTypes, location : Coords]

NoAnalysis == [by |-> Null, of |-> NoParams]
NoPlace == [id |-> <<Null, 0>>, aiAnalysis |-> NoAnalysis]
NoData == [places |-> <<>>, searchParams |-> NoParams]
\* The options of a pending mutation follow the observer's: its onSuccess
\* reads the searchParams of the latest render.
Cur == [type |-> "cur", location |-> "cur"]

\* generateMockPlaces: the ids are <type>_1..<type>_n whatever the location;
\* the mock provider attaches an analysis to every place it generates, the
\* Google provider attaches none.
ProviderPlaces(params, n, analysed) ==
  [i \in 1..n |->
     [id |-> <<params.type, i>>,
      aiAnalysis |-> IF analysed THEN [by |-> "mock", of |-> params]
                                 ELSE NoAnalysis]]

\* MockPlacesService.searchPlaces: the result carries the params it answers.
SearchResult(params, n, analysed) ==
  [places |-> ProviderPlaces(params, n, analysed), searchParams |-> params]

IdleQuery == [data |-> NoData, error |-> FALSE, fetching |-> FALSE]

\* PlaceFilters, as far as filteredPlaces reads them. Ratings are in tenths
\* of a star, distance.max in km, place distances in meters.
NoRating == [set |-> FALSE, min |-> 0, max |-> 0]
NoPriceLevel == [set |-> FALSE, levels |-> {}]
NoDistance == [set |-> FALSE, max |-> 0]
\* useState<Partial<PlaceFilters>>({})
NoFilters ==
  [rating |-> NoRating, priceLevel |-> NoPriceLevel, distance |-> NoDistance]

\* ---------------------------------------------------------- useLocation
\* The two components that call useLocation().
Instances == {"container", "input"}
\* The coordinates of the browser's GPS fix.
GpsFix == "gps"
Addresses == {"a1"}
\* What the geocoding provider answers for an address.
GeocodeOf(address) == "c1"
\* The getCurrentLocation callers: the query's fetch on mount, the
\* container's mount effect, the "Use My Current Location" button and the
\* refetch of useGPSLocation.
GpsCallers == {"mount", "effect", "button", "refetch"}

IdleLocationQuery == [data |-> Null, error |-> FALSE, fetching |-> FALSE]

\* The page with the location hook at rest: nothing fetched, nothing typed.
LocationIdle ==
  /\ permission = "granted"
  /\ locationQuery = IdleLocationQuery
  /\ gpsInFlight = {}
  /\ gpsCalls = [c \in GpsCallers |-> 0]
  /\ manualLocation = [i \in Instances |-> Null]
  /\ renderPending = FALSE
  /\ mountEffectDeps = <<FALSE, FALSE>>
  /\ searchCalls = 0
  /\ geocodeCache = [a \in Addresses |-> Null]
  /\ geocodeCalls = [a \in Addresses |-> 0]
  /\ geocoding = Null

\* No provider search and no filtered view computed on their own.
NoResult == [by |-> Null, places |-> <<>>]
NoView == [computed |-> FALSE, places |-> <<>>]
FnIdle ==
  /\ candidates = <<>>
  /\ options = [minRating |-> 0, keyword |-> FALSE]
  /\ returned = NoResult
  /\ fetched = <<>>
  /\ view = NoView

\* Nothing classified on its own.
NoBuckets == [rating |-> 0, data |-> Null, badge |-> Null, metrics |-> Null]
ClassifyIdle ==
  /\ rated = [raw |-> 0, reviewCount |-> 0]
  /\ buckets = NoBuckets

\* Neither parameter is in the query string.
NoUrl == [nav |-> Null, destination |-> Null]

\* No place found, nothing selected, neither map created yet.
NoMapMarkers ==
  [filtered |-> {}, selected |-> Null,
   loaded |-> FALSE, rendered |-> {},
   hookLoaded |-> FALSE, hookRendered |-> {}]

\* useMap debounces the center and the zoom of its view state.
DebounceUses == {"center", "zoom"}
\* No instance rendered yet.
NoDebounce ==
  [i \in DebounceUses |->
     [value |-> Null, debouncedValue |-> Null, timer |-> Null]]

\* Load attempts made in one session.
MaxLoads == 3
\* private static loadPromise: Promise<void> | null = null
NoPromise == 0
\* MapContainer's mount effect and the methods of GooglePlacesService call
\* the loader.
LoadCallers == {"map", "searchPlaces", "getPlaceDetails"}
\* The statics as declared; no script element; nobody has called.
NoLoader ==
  [isLoaded |-> FALSE, isLoading |-> FALSE, loadPromise |-> NoPromise,
   google |-> FALSE, scripts |-> {}, injected |-> 0,
   promises |-> [n \in 1..MaxLoads |-> "none"],
   returned |-> [promise |-> NoPromise, injected |-> FALSE],
   callers |-> [c \in LoadCallers |->
                  [awaiting |-> NoPromise, outcome |-> Null]]]

\* The components modelled on their own, the classification apart.
PageIdle ==
  /\ url = NoUrl
  /\ mapMarkers = NoMapMarkers
  /\ debounce = NoDebounce
  /\ loader = NoLoader

AuxIdle ==
  /\ ClassifyIdle
  /\ PageIdle

SearchIdle ==
  /\ LocationIdle
  /\ FnIdle
  /\ AuxIdle
  /\ searchParams = NoParams
  /\ selectedPlace = NoPlace.id
  /\ enableAIAnalysis = TRUE
  /\ queries = [k \in SearchKeys |-> IdleQuery]
  /\ waiting = {}
  /\ mutations = {}
  /\ filters = NoFilters


\* ------------------------------------------------- useNavigationState
\* parse of the `nav` parameter; an absent parameter takes the default.
ParseNav(value) ==
  IF value = "static" \/ value = "live" THEN value ELSE "none"

\* parse of the `destination` parameter: value || null.
ParseDestination(value) ==
  IF value = Null \/ value = "" THEN Null ELSE value

\* serialize of the `destination` parameter: value || ''.
SerializeDestination(value) ==
  IF value = Null THEN "" ELSE value

\* serialize of the `nav` parameter that writes every mode as 'live'.
SerializeNavAsLive(value) == "live"

\* serialize of the `nav` parameter: the value itself.
SerializeNav(value) == value

IsNavigating(mode) == mode # "none"

\* const currentDestination = markers.find(m => m.place.id === destinationId)
CurrentDestination(ms, dest) ==
  IF dest # Null /\ dest \in ms THEN dest ELSE Null

\* ------------------------------------------------------- MapContainer
Op(name, place) == [op |-> name, place |-> place]
NoOp == Op("init", Null)

\* The operation is noted; an operation of the map component leaves the
\* state of the search hook alone.
Record(name, place) ==
  /\ lastOp' = Op(name, place)
  /\ UNCHANGED <<searchVars, filters, restVars>>

\* calculateRoute: the directions callback draws the route on the renderer
\* when the status is OK and alerts otherwise.  Every caller runs in a render
\* where isNavigating is true, so the confirm dialog is never shown.
CalculateRoute(origin, destination, ok) ==
  IF ok
    THEN /\ displayedRoute' = [origin |-> origin, destination |-> destination]
         /\ lastAlert' = Null
    ELSE /\ displayedRoute' = displayedRoute
         /\ lastAlert' = "directions"

\* startRealTimeNavigation: registers a watch and stores its id in the ref.
StartRealTimeNavigation ==
  /\ nextWatchId <= MaxWatches
  /\ locationWatchIdRef' = nextWatchId
  /\ registeredWatches' = registeredWatches \cup {nextWatchId}
  /\ nextWatchId' = nextWatchId + 1

\* The navigation effect, run after a render in which one of
\* [navigationMode, currentDestination, center] changed.
NavigationEffect(mode, curDest, ctr, ok) ==
  IF ctr = Null \/ curDest = Null
    THEN /\ UNCHANGED <<locationWatchIdRef, directionsRendererRef,
                         displayedRoute, registeredWatches, nextWatchId>>
         /\ lastAlert' = Null
    ELSE CASE mode = "static" ->
                /\ directionsRendererRef' = TRUE
                /\ CalculateRoute(ctr, curDest, ok)
                /\ UNCHANGED <<locationWatchIdRef, registeredWatches, nextWatchId>>
           [] mode = "live" ->
                /\ directionsRendererRef' = TRUE
                /\ CalculateRoute(ctr, curDest, ok)
                /\ StartRealTimeNavigation
           [] OTHER ->
                /\ directionsRendererRef' = FALSE
                /\ displayedRoute' = NoRoute
                /\ lastAlert' = Null
                /\ IF locationWatchIdRef # NoWatch
                     THEN /\ registeredWatches' = registeredWatches \ {locationWatchIdRef}
                          /\ locationWatchIdRef' = NoWatch
                     ELSE UNCHANGED <<registeredWatches, locationWatchIdRef>>
                /\ UNCHANGED nextWatchId

\* The render after a change of navigation state or props, with its effect:
\* the effect runs only when one of its dependencies changed.
Rerender(mode, dest, ctr, ms, ok) ==
  LET old == CurrentDestination(markers, destinationId)
      new == CurrentDestination(ms, dest)
      \* a changed place set carries new place objects
      changed == \/ mode # navigationMode
                 \/ ctr # center
                 \/ new # old
                 \/ (ms # markers /\ new # Null)
  IN IF changed
       THEN NavigationEffect(mode, new, ctr, ok)
       ELSE /\ UNCHANGED <<locationWatchIdRef, directionsRendererRef,
                            displayedRoute, registeredWatches, nextWatchId>>
            /\ lastAlert' = Null

\* startNavigation(placeId, mode)
StartNavigation(placeId, mode, ok) ==
  /\ destinationId' = placeId
  /\ navigationMode' = mode
  /\ Rerender(mode, placeId, center, markers, ok)

\* handleStaticRoute / handleLiveNavigation without the check of center.
HandleStartUnchecked(place, mode, name, ok) ==
  /\ mounted
  /\ place \in markers
  /\ Record(name, place)
  /\ UNCHANGED <<center, markers, capturedCenter, stopNavFor, mounted>>
  /\ StartNavigation(place, mode, ok)

\* handleStaticRoute / handleLiveNavigation, from the info window of a marker.
HandleStart(place, mode, name, ok) ==
  /\ mounted
  /\ place \in markers
  /\ Record(name, place)
  /\ UNCHANGED <<center, markers, capturedCenter, stopNavFor, mounted>>
  /\ IF capturedCenter = Null
       THEN /\ lastAlert' = "no-location"
            /\ UNCHANGED <<navigationMode, destinationId, locationWatchIdRef,
                           directionsRendererRef, displayedRoute,
                           registeredWatches, nextWatchId>>
       ELSE StartNavigation(place, mode, ok)

HandleStaticRoute ==
  \E place \in PlaceIds, ok \in BOOLEAN :
    HandleStart(place, "static", "static", ok)

HandleLiveNavigation ==
  \E place \in PlaceIds, ok \in BOOLEAN :
    HandleStart(place, "live", "live", ok)

\* handleStopNavigation, from the stop entry of the destination's info window.
HandleStopNavigation ==
  /\ mounted
  /\ stopNavFor # Null
  /\ stopNavFor \in markers
  /\ Record("stop", stopNavFor)
  /\ destinationId' = Null
  /\ navigationMode' = "none"
  /\ IF locationWatchIdRef # NoWatch
       THEN /\ registeredWatches' = registeredWatches \ {locationWatchIdRef}
            /\ locationWatchIdRef' = NoWatch
       ELSE UNCHANGED <<registeredWatches, locationWatchIdRef>>
  /\ directionsRendererRef' = FALSE
  /\ displayedRoute' = NoRoute
  \* the effect of the following render returns early: no destination
  /\ lastAlert' = Null
  /\ UNCHANGED <<center, markers, capturedCenter, stopNavFor, nextWatchId,
                 mounted>>

\* setNavigationMode, as the hook returns it.
SetNavigationMode ==
  \E mode \in NavigationMode, ok \in BOOLEAN :
    /\ mounted
    /\ Record("setMode", Null)
    /\ navigationMode' = mode
    /\ Rerender(mode, destinationId, center, markers, ok)
    /\ UNCHANGED <<destinationId, center, markers, capturedCenter, stopNavFor,
                   mounted>>

\* The URL changes under the page (history navigation, a pasted link): both
\* parameters are parsed again.
RestoreFromUrl ==
  \E nav \in NavParams, dest \in DestParams, ok \in BOOLEAN :
    /\ mounted
    /\ Record("restore", Null)
    /\ navigationMode' = ParseNav(nav)
    /\ destinationId' = ParseDestination(dest)
    /\ Rerender(ParseNav(nav), ParseDestination(dest), center, markers, ok)
    /\ UNCHANGED <<center, markers, capturedCenter, stopNavFor, mounted>>

\* The center prop changes (a new active location).
CenterChange ==
  \E ctr \in Coords, ok \in BOOLEAN :
    /\ mounted
    /\ ctr # center
    /\ Record("center", Null)
    /\ center' = ctr
    /\ Rerender(navigationMode, destinationId, ctr, markers, ok)
    /\ UNCHANGED <<navigationMode, destinationId, markers, capturedCenter,
                   stopNavFor, mounted>>

\* The markers prop changes (a new filtered set, a merged analysis, a new
\* selection): the markers effect rebuilds the markers and their info
\* windows, which close over this render's center and navigation state.
MarkersChange ==
  \E ms \in SUBSET PlaceIds, ok \in BOOLEAN :
    /\ mounted
    /\ Record("markers", Null)
    /\ markers' = ms
    /\ capturedCenter' = center
    /\ stopNavFor' = IF IsNavigating(navigationMode)
                       THEN CurrentDestination(ms, destinationId)
                       ELSE Null
    /\ Rerender(navigationMode, destinationId, center, ms, ok)
    /\ UNCHANGED <<navigationMode, destinationId, center, mounted>>

\* A registered watch reports a position: the route is recomputed from it
\* when the closure's currentDestination is set.
WatchPosition ==
  \E w \in registeredWatches, pos \in Coords, ok \in BOOLEAN :
    /\ Record(IF mounted THEN "position" ELSE "positionAfterUnmount", Null)
    /\ IF CurrentDestination(markers, destinationId) # Null
            /\ directionsRendererRef
         THEN CalculateRoute(pos, CurrentDestination(markers, destinationId), ok)
         ELSE /\ UNCHANGED displayedRoute
              /\ lastAlert' = Null
    /\ UNCHANGED <<navigationMode, destinationId, center, markers,
                   locationWatchIdRef, directionsRendererRef, capturedCenter,
                   stopNavFor, registeredWatches, nextWatchId, mounted>>

\* A registered watch reports an error and the handler ends the session.
WatchErrorEndsNavigation ==
  \E w \in registeredWatches :
    /\ Record("watchError", Null)
    /\ lastAlert' = "watch"
    /\ navigationMode' = "none"
    /\ destinationId' = Null
    /\ displayedRoute' = NoRoute
    /\ UNCHANGED <<center, markers, locationWatchIdRef,
                   directionsRendererRef, capturedCenter, stopNavFor,
                   registeredWatches, nextWatchId, mounted>>

\* A registered watch reports an error: the user is alerted, nothing else.
WatchError ==
  \E w \in registeredWatches :
    /\ Record("watchError", Null)
    /\ lastAlert' = "watch"
    /\ UNCHANGED <<navigationMode, destinationId, center, markers,
                   locationWatchIdRef, directionsRendererRef, displayedRoute,
                   capturedCenter, stopNavFor, registeredWatches, nextWatchId,
                   mounted>>

\* The cleanup of the mount effect.
Unmount ==
  /\ mounted
  /\ Record("unmount", Null)
  /\ mounted' = FALSE
  /\ registeredWatches' = IF locationWatchIdRef # NoWatch
                            THEN registeredWatches \ {locationWatchIdRef}
                            ELSE registeredWatches
  /\ displayedRoute' = NoRoute
  /\ markers' = {}
  /\ UNCHANGED <<navigationMode, destinationId, center, locationWatchIdRef,
                 directionsRendererRef, capturedCenter, stopNavFor,
                 nextWatchId>>
  /\ lastAlert' = Null

\* The page is opened without navigation parameters (both take their
\* defaults); no location and no search result yet.
NavInit ==
  /\ navigationMode = ParseNav(Null)
  /\ destinationId = ParseDestination(Null)
  /\ center = Null
  /\ markers = {}
  /\ locationWatchIdRef = NoWatch
  /\ directionsRendererRef = FALSE
  /\ displayedRoute = NoRoute
  /\ capturedCenter = Null
  /\ stopNavFor = Null
  /\ registeredWatches = {}
  /\ nextWatchId = 1
  /\ mounted = TRUE
  /\ lastAlert = Null
  /\ lastOp = NoOp
  /\ SearchIdle

NavNext ==
  \/ HandleStaticRoute
  \/ HandleLiveNavigation
  \/ HandleStopNavigation
  \/ SetNavigationMode
  \/ RestoreFromUrl
  \/ CenterChange
  \/ MarkersChange
  \/ WatchPosition
  \/ WatchError
  \/ Unmount

NavSpec == NavInit /\ [][NavNext]_vars

\* ------------------------------------------------------- usePlacesSearch
SOp(name, params, place, aiCall) ==
  [op |-> name, params |-> params, place |-> place, aiCall |-> aiCall]

\* An operation of the search hook is noted; it leaves the map component's
\* navigation state alone.
SNote(name, params, place, aiCall) ==
  /\ lastOp' = SOp(name, params, place, aiCall)
  /\ UNCHANGED <<navigationMode, destinationId, center, markers,
                 locationWatchIdRef, directionsRendererRef, displayedRoute,
                 capturedCenter, stopNavFor, registeredWatches, nextWatchId,
                 mounted, lastAlert>>

\* ... and, setFilters apart, the filters, and the location hook.
SRecord(name, params, place, aiCall) ==
  /\ SNote(name, params, place, aiCall)
  /\ UNCHANGED <<filters, restVars>>

\* data of the search query observed under the current searchParams; the
\* query is disabled, and holds nothing, while searchParams is null.
SearchResultOf(qs, params) ==
  IF params = NoParams THEN NoData ELSE qs[params].data

searchResult == SearchResultOf(queries, searchParams)

searchError == searchParams # NoParams /\ queries[searchParams].error

isSearching ==
  /\ searchParams # NoParams
  /\ queries[searchParams].fetching
  /\ queries[searchParams].data = NoData

\* filteredPlaces, with no filter set.
filteredPlaces == searchResult.places

PlacesOf(seq) == {seq[i] : i \in 1..Len(seq)}
IdsOf(seq) == {seq[i].id : i \in 1..Len(seq)}

\* PlacesList: the cards are rendered unless the error or the loading panel
\* replaces them.
ListedPlaces ==
  IF searchError \/ isSearching THEN {} ELSE PlacesOf(filteredPlaces)

\* The markers prop, and the markers the markers effect renders from it.
Markers ==
  {[id |-> p.id, isSelected |-> selectedPlace = p.id] :
     p \in PlacesOf(filteredPlaces)}

\* PlaceCard isSelected={selectedPlace?.id === place.id}
ListHighlighted == {p.id : p \in {q \in ListedPlaces : selectedPlace = q.id}}

\* getMarkerIcon(type, isSelected)
MapHighlighted == {m.id : m \in {x \in Markers : x.isSelected}}

\* Variant of CommitResponse: the response is committed to whatever search is
\* current when it arrives.
CommitResponseToCurrentSearch(qs, params, result) ==
  [qs EXCEPT ![params].fetching = FALSE,
             ![IF searchParams = NoParams THEN params ELSE searchParams].data = result]

\* fetchQuery commits a response to the query of the key it was issued for.
CommitResponse(qs, params, result) ==
  [qs EXCEPT ![params] = [data |-> result, error |-> FALSE, fetching |-> FALSE]]

\* mutate(): the new mutation becomes the observer's current one; the one it
\* supersedes keeps the options (the searchParams) it last received.
StartMutation(ms, kind, sent, of, frozen) ==
  {IF m.kind = kind /\ m.target = Cur
     THEN [m EXCEPT !.target = frozen] ELSE m : m \in ms}
  \cup {[kind |-> kind, sent |-> IdsOf(sent), of |-> of, target |-> Cur]}

\* analyses[place.id] || place.aiAnalysis  (p.id === place.id ? ... : p)
MergeAnalyses(data, m) ==
  [data EXCEPT !.places =
     [i \in 1..Len(data.places) |->
        IF data.places[i].id \in m.sent
          THEN [data.places[i] EXCEPT !.aiAnalysis = [by |-> "ai", of |-> m.of]]
          ELSE data.places[i]]]

\* onSuccess of analyzeePlaceMutation / batchAnalyzeMutation: the updater is
\* applied to the search query of the closure's searchParams.
OnMutationSuccess(qs, m, params) ==
  LET key == IF m.target = Cur THEN params ELSE m.target
  IN IF key = NoParams \/ qs[key].data = NoData
       THEN qs
       ELSE [qs EXCEPT ![key] = [data |-> MergeAnalyses(qs[key].data, m),
                                 error |-> FALSE,
                                 fetching |-> qs[key].fetching]]

\* Variant of OnMutationError: the failure is surfaced on the current search.
OnMutationErrorFailsSearch(qs, m, params) ==
  IF params = NoParams THEN qs ELSE [qs EXCEPT ![params].error = TRUE]

\* Neither mutation has an onError, and mutate() swallows the rejection.
OnMutationError(qs, m, params) == qs

\* params spread with filters: { ...params, ...filters }. A field of the
\* filters that is set overrides the field the params carry.
ParamsFilters(params) ==
  IF "filters" \in DOMAIN params THEN params.filters ELSE NoFilters

MergeFilters(prev, new) ==
  [rating |-> IF new.rating.set THEN new.rating ELSE prev.rating,
   priceLevel |-> IF new.priceLevel.set THEN new.priceLevel
                                        ELSE prev.priceLevel,
   distance |-> IF new.distance.set THEN new.distance ELSE prev.distance]

Spread(params, fs) ==
  LET merged == MergeFilters(ParamsFilters(params), fs)
  IN IF merged = NoFilters
       THEN [type |-> params.type, location |-> params.location]
       ELSE [type |-> params.type, location |-> params.location,
             filters |-> merged]

\* searchPlaces finds the result in the cache and classifies it.
CallsAI(params) ==
  /\ queries[params].data # NoData
  /\ enableAIAnalysis
  /\ Len(queries[params].data.places) > 0

\* The cached result may resolve before or after the render that carries
\* the new searchParams.
FrozenChoices(params) ==
  IF CallsAI(params) THEN {searchParams, params} ELSE {params}

\* searchPlaces(params). A cached result is returned without a fetch while
\* it is fresh (staleTime: 5 minutes); the model covers the sessions in which
\* no cached result has gone stale.
SearchPlacesCall(params, frozen) ==
  LET q == queries[params]
      cached == q.data # NoData
      callAI == CallsAI(params)
  IN /\ callAI => Cardinality(mutations) < MaxInFlight
     /\ searchParams' = params
     /\ selectedPlace' = NoPlace.id
     /\ IF cached
          THEN /\ mutations' = IF callAI
                                 THEN StartMutation(mutations, "batch",
                                                    q.data.places, params, frozen)
                                 ELSE mutations
               /\ UNCHANGED <<queries, waiting>>
          ELSE /\ queries' = [queries EXCEPT ![params] =
                                [data |-> q.data,
                                 error |-> q.data # NoData /\ q.error,
                                 fetching |-> TRUE]]
               /\ waiting' = waiting \cup
                               {[params |-> params, ai |-> enableAIAnalysis]}
               /\ UNCHANGED mutations
     /\ UNCHANGED enableAIAnalysis

SearchPlaces ==
  \E params \in SearchKeys :
    \E frozen \in FrozenChoices(params) :
      /\ SRecord("search", params, NoPlace.id, CallsAI(params))
      /\ SearchPlacesCall(params, frozen)

\* The provider answers the fetch of one key: every searchPlaces invocation
\* awaiting it resumes with the enableAIAnalysis it closed over.
SearchResponseFrom(counts, analysedChoices) ==
  \E params \in DOMAIN queries, n \in counts, analysed \in analysedChoices :
    LET result == SearchResult(params, n, analysed)
        resumed == {w \in waiting : w.params = params}
        callAI == n > 0 /\ \E w \in resumed : w.ai
    IN /\ queries[params].fetching
       /\ callAI => Cardinality(mutations) < MaxInFlight
       /\ SRecord("searchResponse", params, NoPlace.id, callAI)
       /\ queries' = CommitResponse(queries, params, result)
       /\ waiting' = waiting \ resumed
       /\ mutations' = IF callAI
                         THEN StartMutation(mutations, "batch", result.places,
                                            params, searchParams)
                         ELSE mutations
       /\ UNCHANGED <<searchParams, selectedPlace, enableAIAnalysis>>

\* Any provider: no place or NPlaces of them, analysed or not.
SearchResponse == SearchResponseFrom({0, NPlaces}, BOOLEAN)

\* The provider fails the fetch of one key and every cached result is
\* dropped with it.
SearchFailureClearsResults ==
  \E params \in DOMAIN queries :
    /\ queries[params].fetching
    /\ SRecord("searchFailed", NoParams, NoPlace.id, FALSE)
    /\ queries' = [k \in DOMAIN queries |->
                     IF k = params
                       THEN [data |-> NoData, error |-> TRUE, fetching |-> FALSE]
                       ELSE [queries[k] EXCEPT !.data = NoData]]
    /\ waiting' = {w \in waiting : w.params # params}
    /\ UNCHANGED <<searchParams, selectedPlace, enableAIAnalysis, mutations>>

\* The provider fails the fetch of one key (after the retries).
SearchFailure ==
  \E params \in DOMAIN queries :
    /\ queries[params].fetching
    /\ SRecord("searchFailed", NoParams, NoPlace.id, FALSE)
    /\ queries' = [queries EXCEPT ![params].error = TRUE,
                                  ![params].fetching = FALSE]
    /\ waiting' = {w \in waiting : w.params # params}
    /\ UNCHANGED <<searchParams, selectedPlace, enableAIAnalysis, mutations>>

\* selectPlace(place), from a card of the list, or with null.
SelectPlace ==
  \E place \in ListedPlaces \cup {NoPlace} :
    LET callAI == /\ place # NoPlace
                  /\ enableAIAnalysis
                  /\ place.aiAnalysis = NoAnalysis
    IN /\ callAI => Cardinality(mutations) < MaxInFlight
       /\ SRecord("select", NoParams, place.id, callAI)
       /\ selectedPlace' = place.id
       /\ mutations' = IF callAI
                         THEN StartMutation(mutations, "one", <<place>>,
                                            searchParams, searchParams)
                         ELSE mutations
       /\ UNCHANGED <<searchParams, enableAIAnalysis, queries, waiting>>

\* analyzePlace(place)
AnalyzePlace ==
  \E place \in ListedPlaces :
    /\ Cardinality(mutations) < MaxInFlight
    /\ SRecord("analyze", NoParams, NoPlace.id, TRUE)
    /\ mutations' = StartMutation(mutations, "one", <<place>>,
                                  searchParams, searchParams)
    /\ UNCHANGED <<searchParams, selectedPlace, enableAIAnalysis, queries,
                   waiting>>

\* A classification call resolves.
MutationSuccess ==
  \E m \in mutations :
    /\ SRecord("analysisDone", NoParams, NoPlace.id, FALSE)
    /\ queries' = OnMutationSuccess(queries, m, searchParams)
    /\ mutations' = mutations \ {m}
    /\ UNCHANGED <<searchParams, selectedPlace, enableAIAnalysis, waiting>>

\* A classification call fails.
MutationFailure ==
  \E m \in mutations :
    /\ SRecord("analysisFailed", NoParams, NoPlace.id, FALSE)
    /\ queries' = OnMutationError(queries, m, searchParams)
    /\ mutations' = mutations \ {m}
    /\ UNCHANGED <<searchParams, selectedPlace, enableAIAnalysis, waiting>>

\* setEnableAIAnalysis, from the checkbox.
SetEnableAIAnalysis ==
  /\ SRecord("toggleAI", NoParams, NoPlace.id, FALSE)
  /\ enableAIAnalysis' = ~enableAIAnalysis
  /\ UNCHANGED <<searchParams, selectedPlace, queries, waiting, mutations>>

\* clearSearch()
ClearSearch ==
  /\ searchParams # NoParams
  /\ SNote("clear", NoParams, NoPlace.id, FALSE)
  /\ searchParams' = NoParams
  /\ selectedPlace' = NoPlace.id
  /\ filters' = NoFilters
  /\ UNCHANGED <<enableAIAnalysis, queries, waiting, mutations, restVars>>

\* A click on a rendered marker: its info window opens.
MarkerClick ==
  \E m \in Markers :
    /\ SRecord("markerClick", NoParams, m.id, FALSE)
    /\ UNCHANGED <<searchParams, selectedPlace, enableAIAnalysis, queries,
                   waiting, mutations>>

SearchInit ==
  /\ SearchIdle
  /\ lastOp = SOp("init", NoParams, NoPlace.id, FALSE)
  /\ navigationMode = ParseNav(Null)
  /\ destinationId = ParseDestination(Null)
  /\ center = Null
  /\ markers = {}
  /\ locationWatchIdRef = NoWatch
  /\ directionsRendererRef = FALSE
  /\ displayedRoute = NoRoute
  /\ capturedCenter = Null
  /\ stopNavFor = Null
  /\ registeredWatches = {}
  /\ nextWatchId = 1
  /\ mounted = TRUE
  /\ lastAlert = Null

SearchNext ==
  \/ SearchPlaces
  \/ SearchResponse
  \/ SearchFailure
  \/ SelectPlace
  \/ AnalyzePlace
  \/ MutationSuccess
  \/ MutationFailure
  \/ SetEnableAIAnalysis
  \/ ClearSearch
  \/ MarkerClick

SearchSpec == SearchInit /\ [][SearchNext]_vars

\* --------------------------------------------- filters and the search key
\* The slider positions the filter panel is moved to.
RatingChoices == {[set |-> TRUE, min |-> 40, max |-> 50]}
DistanceChoices == {[set |-> TRUE, max |-> 1]}
FilterValues ==
  [rating : {NoRating} \cup RatingChoices,
   priceLevel : {NoPriceLevel},
   distance : {NoDistance} \cup DistanceChoices]

\* Every PlaceSearchParams a search can be keyed by.
FilterLocations == {"c1"}
FilterKeys ==
  {Spread([type |-> t, location |-> l], f) :
     t \in PlaceTypes, l \in FilterLocations, f \in FilterValues}

\* MockPlacesService.searchPlaces answers: the mock generates its places
\* whatever the location, each with an analysis.
MockSearchResponse == SearchResponseFrom({NPlaces}, {TRUE})

\* The map component as the page mounts it, before any navigation.
MapIdle ==
  /\ navigationMode = ParseNav(Null)
  /\ destinationId = ParseDestination(Null)
  /\ center = Null
  /\ markers = {}
  /\ locationWatchIdRef = NoWatch
  /\ directionsRendererRef = FALSE
  /\ displayedRoute = NoRoute
  /\ capturedCenter = Null
  /\ stopNavFor = Null
  /\ registeredWatches = {}
  /\ nextWatchId = 1
  /\ mounted = TRUE
  /\ lastAlert = Null

\* searchByTypeAndLocation(type, location, { radius }): the params are the
\* arguments spread with the filters of the render.
SearchByTypeAndLocation ==
  \E type \in PlaceTypes, location \in FilterLocations :
    LET params == Spread([type |-> type, location |-> location], filters)
    IN \E frozen \in FrozenChoices(params) :
         /\ SRecord("searchByTypeAndLocation", params, NoPlace.id,
                    CallsAI(params))
         /\ SearchPlacesCall(params, frozen)

\* updateFilters(newFilters), from the filter panel, which hands over the
\* filters it shows with one field replaced.
UpdateFilters ==
  \E newFilters \in {[filters EXCEPT !.rating = r] : r \in RatingChoices}
                    \cup {[filters EXCEPT !.distance = d] :
                            d \in DistanceChoices} :
    /\ newFilters # filters
    /\ filters' = MergeFilters(filters, newFilters)
    /\ UNCHANGED restVars
    /\ IF searchParams # NoParams
         THEN LET updatedParams == Spread(searchParams, newFilters)
              IN \E frozen \in FrozenChoices(updatedParams) :
                   /\ SNote("updateFilters", updatedParams, NoPlace.id,
                            CallsAI(updatedParams))
                   /\ SearchPlacesCall(updatedParams, frozen)
         ELSE /\ SNote("updateFilters", NoParams, NoPlace.id, FALSE)
              /\ UNCHANGED searchVars

FilterInit ==
  /\ searchParams = NoParams
  /\ selectedPlace = NoPlace.id
  /\ enableAIAnalysis = TRUE
  /\ queries = [k \in FilterKeys |-> IdleQuery]
  /\ waiting = {}
  /\ mutations = {}
  /\ filters = NoFilters
  /\ lastOp = SOp("init", NoParams, NoPlace.id, FALSE)
  /\ MapIdle
  /\ LocationIdle
  /\ FnIdle
  /\ AuxIdle

FilterNext ==
  \/ SearchByTypeAndLocation
  \/ UpdateFilters
  \/ MockSearchResponse
  \/ MutationSuccess
  \/ ClearSearch

FilterSpec == FilterInit /\ [][FilterNext]_vars

\* ------------------------------------- useLocation and the page's effects
MaxSearchCalls == 3
MaxGpsCalls == 2
MaxGeocodeCalls == 2

\* The getCurrentLocation promises that can be pending: the query's fetch,
\* the mount effect's request and the button's request.
GpsRequests == {"query", "effect", "button"}

\* Every PlaceSearchParams the page can search with.
LocationKeys == [type : PlaceTypes, location : Coords \cup {GpsFix}]

\* effectiveLocation?.current of one instance of the hook
ActiveLocation(i) ==
  IF manualLocation[i] # Null THEN manualLocation[i] ELSE locationQuery.data

HasLocation(i) == ActiveLocation(i) # Null
IsManualLocation(i) == manualLocation[i] # Null
\* isLoading of the query: fetching with no data yet.
IsLoadingLocation == locationQuery.fetching /\ locationQuery.data = Null

\* queryClient.setQueryData(['location', 'current'], location)
SetLocationData(q, coordinates) ==
  [data |-> coordinates, error |-> FALSE, fetching |-> q.fetching]

\* An operation of the location hook or of the page is noted.
LNote(name, params) ==
  /\ SNote(name, params, NoPlace.id, FALSE)
  /\ UNCHANGED <<filters, fnVars, auxVars>>

\* PlacesSearchContainer renders and its effects run. searchPlaces closes
\* over the object useMutation returns, which is a new one at every render,
\* so searchByTypeAndLocation changes with every render and the search
\* effect runs after each of them; its searchPlaces call sets searchParams
\* to a new object, which schedules the next render. The mount effect runs
\* when hasLocation or isLoadingLocation changed.
ContainerRender ==
  LET location == ActiveLocation("container")
      deps == <<HasLocation("container"), IsLoadingLocation>>
      request == deps # mountEffectDeps /\ ~deps[1] /\ ~deps[2]
  IN /\ renderPending
     /\ IF location # Null
          THEN LET params == Spread([type |-> "restaurants",
                                     location |-> location], filters)
               IN /\ searchCalls < MaxSearchCalls
                  /\ searchCalls' = searchCalls + 1
                  /\ renderPending' = TRUE
                  /\ LNote("render", params)
                  /\ \E frozen \in FrozenChoices(params) :
                       SearchPlacesCall(params, frozen)
          ELSE /\ LNote("render", NoParams)
               /\ renderPending' = FALSE
               /\ UNCHANGED <<searchCalls, searchVars>>
     /\ mountEffectDeps' = deps
     /\ IF request
          THEN /\ gpsInFlight' = gpsInFlight \cup {"effect"}
               /\ gpsCalls' = [gpsCalls EXCEPT !["effect"] = @ + 1]
          ELSE UNCHANGED <<gpsInFlight, gpsCalls>>
     /\ UNCHANGED <<permission, locationQuery, manualLocation, geocodeCache,
                    geocodeCalls, geocoding>>

\* getCurrentLocation resolving with a fix whatever the browser answers.
GpsSettledWithFallback ==
  \E request \in gpsInFlight :
    LET ok == TRUE
    IN /\ LNote(IF ok THEN "gpsResolved" ELSE "gpsFailed", NoParams)
       /\ gpsInFlight' = gpsInFlight \ {request}
       /\ locationQuery' =
            IF request = "query"
              THEN [data |-> IF ok THEN GpsFix ELSE locationQuery.data,
                    error |-> ~ok,
                    fetching |-> FALSE]
              ELSE IF ok THEN SetLocationData(locationQuery, GpsFix)
                         ELSE locationQuery
       /\ manualLocation' =
            IF request = "button" /\ ok
              THEN [manualLocation EXCEPT !["container"] = GpsFix]
              ELSE manualLocation
       /\ renderPending' = (renderPending \/ request = "query" \/ ok)
       /\ UNCHANGED <<permission, gpsCalls, mountEffectDeps, searchCalls,
                      geocodeCache, geocodeCalls, geocoding, searchVars>>

\* A getCurrentLocation promise settles: the query's fetch commits the fix
\* or the error; requestCurrentLocation writes the fix into the query cache
\* and rethrows a failure; the button's handler then hands the fix to
\* onLocationChange, which is the container's setUserLocation.
GpsSettled ==
  \E request \in gpsInFlight :
    LET ok == permission = "granted"
    IN /\ LNote(IF ok THEN "gpsResolved" ELSE "gpsFailed", NoParams)
       /\ gpsInFlight' = gpsInFlight \ {request}
       /\ locationQuery' =
            IF request = "query"
              THEN [data |-> IF ok THEN GpsFix ELSE locationQuery.data,
                    error |-> ~ok,
                    fetching |-> FALSE]
              ELSE IF ok THEN SetLocationData(locationQuery, GpsFix)
                         ELSE locationQuery
       /\ manualLocation' =
            IF request = "button" /\ ok
              THEN [manualLocation EXCEPT !["container"] = GpsFix]
              ELSE manualLocation
       /\ renderPending' = (renderPending \/ request = "query" \/ ok)
       /\ UNCHANGED <<permission, gpsCalls, mountEffectDeps, searchCalls,
                      geocodeCache, geocodeCalls, geocoding, searchVars>>

\* A click on the map: handleLocationClick, the container's setUserLocation.
HandleLocationClick ==
  \E coordinates \in Coords :
    /\ LNote("mapClick", NoParams)
    /\ manualLocation' = [manualLocation EXCEPT !["container"] = coordinates]
    /\ locationQuery' = SetLocationData(locationQuery, coordinates)
    /\ renderPending' = TRUE
    /\ UNCHANGED <<permission, gpsInFlight, gpsCalls, mountEffectDeps,
                   searchCalls, geocodeCache, geocodeCalls, geocoding,
                   searchVars>>

\* getCoordinates calling the provider without looking into the cache.
HandleAddressSearchUncached ==
  \E address \in Addresses :
    /\ geocoding = Null
    /\ LNote("addressSearch", NoParams)
    /\ IF FALSE
         THEN /\ manualLocation' = [manualLocation EXCEPT
                                      !["container"] = geocodeCache[address]]
              /\ locationQuery' = SetLocationData(locationQuery,
                                                  geocodeCache[address])
              /\ renderPending' = TRUE
              /\ UNCHANGED <<geocodeCalls, geocoding>>
         ELSE /\ geocodeCalls[address] < MaxGeocodeCalls
              /\ geocodeCalls' = [geocodeCalls EXCEPT ![address] = @ + 1]
              /\ geocoding' = address
              /\ UNCHANGED <<manualLocation, locationQuery, renderPending>>
    /\ UNCHANGED <<permission, gpsInFlight, gpsCalls, mountEffectDeps,
                   searchCalls, geocodeCache, searchVars>>

\* handleAddressSearch, up to the answer of the provider: getCoordinates
\* returns what the cache holds for the address, and the handler hands it
\* to onLocationChange; on a miss the provider is called.
HandleAddressSearch ==
  \E address \in Addresses :
    /\ geocoding = Null
    /\ LNote("addressSearch", NoParams)
    /\ IF geocodeCache[address] # Null
         THEN /\ manualLocation' = [manualLocation EXCEPT
                                      !["container"] = geocodeCache[address]]
              /\ locationQuery' = SetLocationData(locationQuery,
                                                  geocodeCache[address])
              /\ renderPending' = TRUE
              /\ UNCHANGED <<geocodeCalls, geocoding>>
         ELSE /\ geocodeCalls[address] < MaxGeocodeCalls
              /\ geocodeCalls' = [geocodeCalls EXCEPT ![address] = @ + 1]
              /\ geocoding' = address
              /\ UNCHANGED <<manualLocation, locationQuery, renderPending>>
    /\ UNCHANGED <<permission, gpsInFlight, gpsCalls, mountEffectDeps,
                   searchCalls, geocodeCache, searchVars>>

\* The provider answers the geocoding: on success the mutation caches the
\* coordinates, getCoordinates calls the input's setUserLocation and the
\* handler calls onLocationChange; a failure is logged.
GeocodeSettled ==
  \E ok \in BOOLEAN :
    LET coordinates == GeocodeOf(geocoding)
    IN /\ geocoding # Null
       /\ LNote(IF ok THEN "geocoded" ELSE "geocodeFailed", NoParams)
       /\ geocoding' = Null
       /\ IF ok
            THEN /\ geocodeCache' = [geocodeCache EXCEPT
                                       ![geocoding] = coordinates]
                 /\ manualLocation' = [i \in Instances |-> coordinates]
                 /\ locationQuery' = SetLocationData(locationQuery,
                                                     coordinates)
                 /\ renderPending' = TRUE
            ELSE UNCHANGED <<geocodeCache, manualLocation, locationQuery,
                             renderPending>>
       /\ UNCHANGED <<permission, gpsInFlight, gpsCalls, mountEffectDeps,
                      searchCalls, geocodeCalls, searchVars>>

\* handleUseCurrentLocation, up to the answer of the browser; the button is
\* disabled while the container's query is loading.
HandleUseCurrentLocation ==
  /\ ~IsLoadingLocation
  /\ "button" \notin gpsInFlight
  /\ gpsCalls["button"] < MaxGpsCalls
  /\ LNote("useCurrentLocation", NoParams)
  /\ gpsInFlight' = gpsInFlight \cup {"button"}
  /\ gpsCalls' = [gpsCalls EXCEPT !["button"] = @ + 1]
  /\ UNCHANGED <<permission, locationQuery, manualLocation, renderPending,
                 mountEffectDeps, searchCalls, geocodeCache, geocodeCalls,
                 geocoding, searchVars>>

\* useGPSLocation of the input's hook instance, from the "Use GPS" button,
\* which the input shows when it is handed a location and its own
\* isManualLocation is true.
UseGPSLocation ==
  /\ HasLocation("container")
  /\ IsManualLocation("input")
  /\ gpsCalls["refetch"] < MaxGpsCalls
  /\ LNote("useGPS", NoParams)
  /\ manualLocation' = [manualLocation EXCEPT !["input"] = Null]
  /\ locationQuery' = [locationQuery EXCEPT !.fetching = TRUE]
  /\ gpsInFlight' = gpsInFlight \cup {"query"}
  /\ gpsCalls' = [gpsCalls EXCEPT !["refetch"] = @ + 1]
  /\ UNCHANGED <<permission, renderPending, mountEffectDeps, searchCalls,
                 geocodeCache, geocodeCalls, geocoding, searchVars>>

\* The page after its first commit: both observers of the location query
\* are mounted and its fetch is on its way; the first run of the mount
\* effect saw isLoadingLocation and requested nothing.
LocationInit ==
  /\ permission \in {"granted", "denied"}
  /\ locationQuery = [data |-> Null, error |-> FALSE, fetching |-> TRUE]
  /\ gpsInFlight = {"query"}
  /\ gpsCalls = [c \in GpsCallers |-> IF c = "mount" THEN 1 ELSE 0]
  /\ manualLocation = [i \in Instances |-> Null]
  /\ renderPending = FALSE
  /\ mountEffectDeps = <<FALSE, TRUE>>
  /\ searchCalls = 0
  /\ geocodeCache = [a \in Addresses |-> Null]
  /\ geocodeCalls = [a \in Addresses |-> 0]
  /\ geocoding = Null
  /\ searchParams = NoParams
  /\ selectedPlace = NoPlace.id
  /\ enableAIAnalysis = TRUE
  /\ queries = [k \in LocationKeys |-> IdleQuery]
  /\ waiting = {}
  /\ mutations = {}
  /\ filters = NoFilters
  /\ lastOp = SOp("init", NoParams, NoPlace.id, FALSE)
  /\ MapIdle
  /\ FnIdle
  /\ AuxIdle

LocationNext ==
  \/ ContainerRender
  \/ GpsSettled
  \/ HandleLocationClick
  \/ HandleAddressSearch
  \/ GeocodeSettled
  \/ HandleUseCurrentLocation
  \/ UseGPSLocation
  \/ MockSearchResponse
  \/ MutationSuccess

LocationSpec == LocationInit /\ [][LocationNext]_vars

\* ------------------------------------------- the provider search, alone
MaxCandidates == 3
MaxPad == 9
\* filteredPlaces.slice(0, 10)
TopN == 10

\* Ratings are held in tenths of a star (Number(rating.toFixed(1))),
\* distances in meters; matches tells whether the name or the address of
\* the place contains the keyword.
Ratings == {40, 41, 42}
Distances == {100, 900}
CandidatePlaces == [rating : Ratings, distance : Distances, matches : BOOLEAN]
Filler == [rating |-> 30, distance |-> 500, matches |-> TRUE]
MinRatings == {0, 41}

\* The pairs of different one-decimal ratings whose difference, computed in
\* doubles, is below 0.1: 4.1 - 4.0 = 0.09999999999999964, whereas
\* 4.2 - 4.1 = 0.10000000000000053 and 4.2 - 4.0 = 0.20000000000000018.
BelowTenthInDoubles == {{40, 41}}

\* Math.abs(ratingDiff) < 0.1
RatingsTie(a, b) ==
  a.rating = b.rating \/ {a.rating, b.rating} \in BelowTenthInDoubles

\* The comparator handed to sort: negative when a goes first.
Compare(a, b) ==
  IF RatingsTie(a, b) THEN a.distance - b.distance
                      ELSE b.rating - a.rating

\* Array.prototype.sort is stable; over these ratings the comparator is a
\* consistent ordering, so the sorted array is the one a stable insertion
\* sort builds.
RECURSIVE InsertSorted(_, _)
InsertSorted(x, s) ==
  IF s = <<>> THEN <<x>>
  ELSE IF Compare(s[Len(s)], x) > 0
         THEN Append(InsertSorted(x, SubSeq(s, 1, Len(s) - 1)), s[Len(s)])
         ELSE Append(s, x)

RECURSIVE SortPlaces(_)
SortPlaces(s) ==
  IF s = <<>> THEN <<>>
  ELSE InsertSorted(s[Len(s)], SortPlaces(SubSeq(s, 1, Len(s) - 1)))

\* slice(0, n)
Slice(s, n) == SubSeq(s, 1, IF Len(s) < n THEN Len(s) ELSE n)

\* MockPlacesService.searchPlaces over the places generated
MockSearchPlaces(allPlaces, params) ==
  LET RatingOk(place) == params.minRating = 0
                           \/ place.rating >= params.minRating
      KeywordOk(place) == ~params.keyword \/ place.matches
      filteredByRating == SelectSeq(allPlaces, RatingOk)
      filteredByKeyword == SelectSeq(filteredByRating, KeywordOk)
  IN Slice(SortPlaces(filteredByKeyword), TopN)

\* GooglePlacesService.searchPlaces over the results of nearbySearch, which
\* received the keyword: only minRating is applied to them.
GoogleSearchPlaces(results, params) ==
  LET RatingOk(place) == ~(params.minRating # 0
                             /\ place.rating < params.minRating)
  IN SelectSeq(results, RatingOk)

\* A search on its own leaves the page alone.
FnNote(name) ==
  /\ lastOp' = SOp(name, NoParams, NoPlace.id, FALSE)
  /\ UNCHANGED <<navigationMode, destinationId, center, markers,
                 locationWatchIdRef, directionsRendererRef, displayedRoute,
                 capturedCenter, stopNavFor, registeredWatches, nextWatchId,
                 mounted, lastAlert, searchVars, locVars, auxVars>>

MockSearch ==
  /\ returned.by # "mock"
  /\ FnNote("mockSearch")
  /\ returned' = [by |-> "mock",
                  places |-> MockSearchPlaces(candidates, options)]
  /\ UNCHANGED <<candidates, options, fetched, view, filters>>

GoogleSearch ==
  /\ returned.by # "google"
  /\ FnNote("googleSearch")
  /\ returned' = [by |-> "google",
                  places |-> GoogleSearchPlaces(candidates, options)]
  /\ UNCHANGED <<candidates, options, fetched, view, filters>>

\* The candidate lists: up to MaxCandidates places followed by up to MaxPad
\* low-rated ones.
CandidateLists ==
  {base \o [i \in 1..pad |-> Filler] :
     base \in UNION {[1..n -> CandidatePlaces] : n \in 0..MaxCandidates},
     pad \in 0..MaxPad}

SortInit ==
  /\ candidates \in CandidateLists
  /\ options \in [minRating : MinRatings, keyword : BOOLEAN]
  /\ returned = NoResult
  /\ fetched = <<>>
  /\ view = NoView
  /\ LocationIdle
  /\ MapIdle
  /\ AuxIdle
  /\ searchParams = NoParams
  /\ selectedPlace = NoPlace.id
  /\ enableAIAnalysis = TRUE
  /\ queries = [k \in SearchKeys |-> IdleQuery]
  /\ waiting = {}
  /\ mutations = {}
  /\ filters = NoFilters
  /\ lastOp = SOp("init", NoParams, NoPlace.id, FALSE)

SortNext ==
  \/ MockSearch
  \/ GoogleSearch

SortSpec == SortInit /\ [][SortNext]_vars

\* ---------------------------------------------- the filtered view, alone
MaxFetched == 3

\* The places of a result as filteredPlaces reads them: the rating in
\* tenths of a star, the priceLevel (0 when the place has none) and the
\* distance in meters (0 when the place has none).
ViewPlaces == [rating : {32, 41, 50}, priceLevel : {0, 2},
               distance : {0, 500, 1500}]

\* The filters the panel can produce: the rating slider at 4, price level 2
\* checked or unchecked again, the distance slider at 0 or at 1 km.
ViewFilters ==
  [rating : {NoRating, [set |-> TRUE, min |-> 40, max |-> 50]},
   priceLevel : {NoPriceLevel, [set |-> TRUE, levels |-> {}],
                 [set |-> TRUE, levels |-> {2}]},
   distance : {NoDistance, [set |-> TRUE, max |-> 0],
               [set |-> TRUE, max |-> 1]}]

\* filteredPlaces of the hook, over the places of the search result
FilteredPlaces(places, fs) ==
  LET RatingOk(place) == /\ place.rating >= fs.rating.min
                         /\ place.rating <= fs.rating.max
      PriceOk(place) == /\ place.priceLevel # 0
                        /\ place.priceLevel \in fs.priceLevel.levels
      maxDistanceMeters == fs.distance.max * 1000
      DistanceOk(place) == \/ place.distance = 0
                           \/ place.distance <= maxDistanceMeters
      byRating == IF fs.rating.set THEN SelectSeq(places, RatingOk)
                                   ELSE places
      byPrice == IF fs.priceLevel.set /\ fs.priceLevel.levels # {}
                   THEN SelectSeq(byRating, PriceOk)
                   ELSE byRating
  IN IF fs.distance.set /\ fs.distance.max # 0
       THEN SelectSeq(byPrice, DistanceOk)
       ELSE byPrice

\* The memo of filteredPlaces is computed for the result and the filters of
\* the render; it works on a copy of the places.
ComputeFilteredPlaces ==
  /\ ~view.computed
  /\ FnNote("filteredPlaces")
  /\ view' = [computed |-> TRUE, places |-> FilteredPlaces(fetched, filters)]
  /\ UNCHANGED <<fetched, filters, candidates, options, returned>>

\* The next render, with the same result and filters.
Rerendered ==
  /\ view.computed
  /\ FnNote("rerender")
  /\ view' = NoView
  /\ UNCHANGED <<fetched, filters, candidates, options, returned>>

FilterViewInit ==
  /\ fetched \in UNION {[1..n -> ViewPlaces] : n \in 0..MaxFetched}
  /\ filters \in ViewFilters
  /\ view = NoView
  /\ candidates = <<>>
  /\ options = [minRating |-> 0, keyword |-> FALSE]
  /\ returned = NoResult
  /\ LocationIdle
  /\ MapIdle
  /\ AuxIdle
  /\ searchParams = NoParams
  /\ selectedPlace = NoPlace.id
  /\ enableAIAnalysis = TRUE
  /\ queries = [k \in SearchKeys |-> IdleQuery]
  /\ waiting = {}
  /\ mutations = {}
  /\ lastOp = SOp("init", NoParams, NoPlace.id, FALSE)

FilterViewNext ==
  \/ ComputeFilteredPlaces
  \/ Rerendered

FilterViewSpec == FilterViewInit /\ [][FilterViewNext]_vars

\* ------------------------------------------- the classification, alone
\* Ratings are in hundredths: the generator draws 3 + 2 * Math.random().
MinRawRating == 300
MaxRawRating == 499
RawRatings == MinRawRating..MaxRawRating
ReviewCounts == {20, 50, 99, 100, 549}

\* Number(rating.toFixed(1)), in hundredths
ToFixed1(raw) == ((raw + 5) \div 10) * 10

\* getClassificationFromRating of the mock data
getClassificationFromRating(rating) ==
  IF rating >= 450 THEN "excellent"
  ELSE IF rating >= 400 THEN "very_good"
  ELSE IF rating >= 350 THEN "good"
  ELSE IF rating >= 300 THEN "average"
  ELSE "poor"

\* getClassificationFromRating of the classification badge
BadgeClassificationFromRating(rating) ==
  IF rating >= 450 THEN "excellent"
  ELSE IF rating >= 400 THEN "very_good"
  ELSE IF rating >= 350 THEN "good"
  ELSE IF rating >= 300 THEN "average"
  ELSE "poor"

\* Math.min(a, b)
Min(a, b) == IF a < b THEN a ELSE b

\* MockOpenAIService.getClassificationFromMetrics. With the rating in
\* hundredths, rating * (0.7 + 0.3 * min(reviewCount / 100, 1)) is
\* rating * (7000 + 30 * min(reviewCount, 100)) / 1000000: adjustedRating
\* holds it times 1000000, and the thresholds likewise. Over one-decimal
\* ratings the doubles decide every comparison the same way.
getClassificationFromMetrics(rating, reviewCount) ==
  LET adjustedRating == rating * (7000 + 30 * Min(reviewCount, 100))
  IN IF adjustedRating >= 4500000 THEN "excellent"
     ELSE IF adjustedRating >= 4000000 THEN "very_good"
     ELSE IF adjustedRating >= 3500000 THEN "good"
     ELSE IF adjustedRating >= 3000000 THEN "average"
     ELSE "poor"

\* A classification on its own leaves the page alone.
AuxNote(name) ==
  /\ lastOp' = SOp(name, NoParams, NoPlace.id, FALSE)
  /\ UNCHANGED <<navigationMode, destinationId, center, markers,
                 locationWatchIdRef, directionsRendererRef, displayedRoute,
                 capturedCenter, stopNavFor, registeredWatches, nextWatchId,
                 mounted, lastAlert, searchVars, filters, locVars, fnVars>>

\* generateMockRestaurants builds the place: the analysis attached is that
\* of the drawn rating, the rating stored is the drawn one to one decimal.
\* The badge utility and analyzePlaceReviews classify the stored place.
Classify ==
  /\ buckets = NoBuckets
  /\ AuxNote("classify")
  /\ LET rating == ToFixed1(rated.raw)
     IN buckets' =
          [rating |-> rating,
           data |-> getClassificationFromRating(rated.raw),
           badge |-> BadgeClassificationFromRating(rating),
           metrics |-> getClassificationFromMetrics(rating,
                                                    rated.reviewCount)]
  /\ UNCHANGED <<rated, url, mapMarkers, debounce, loader>>

\* The next place.
ClassifyNextPlace ==
  /\ buckets # NoBuckets
  /\ AuxNote("nextPlace")
  /\ buckets' = NoBuckets
  /\ UNCHANGED <<rated, url, mapMarkers, debounce, loader>>

\* The search hook and the page at rest, whatever the specification adds.
HookIdle ==
  /\ searchParams = NoParams
  /\ selectedPlace = NoPlace.id
  /\ enableAIAnalysis = TRUE
  /\ queries = [k \in SearchKeys |-> IdleQuery]
  /\ waiting = {}
  /\ mutations = {}
  /\ filters = NoFilters
  /\ lastOp = SOp("init", NoParams, NoPlace.id, FALSE)
  /\ LocationIdle
  /\ FnIdle
  /\ MapIdle

ClassifyInit ==
  /\ rated \in [raw : RawRatings, reviewCount : ReviewCounts]
  /\ buckets = NoBuckets
  /\ PageIdle
  /\ HookIdle

ClassifyNext ==
  \/ Classify
  \/ ClassifyNextPlace

ClassifySpec == ClassifyInit /\ [][ClassifyNext]_vars

\* ------------------------------------------------------ navigation claims

\* C1: in every reachable state the destination place id is set if and only
\* if the navigation mode is not `none`.
C1_DestinationIffNavigating ==
  (destinationId # Null) <=> (navigationMode # "none")

\* C2: when the stop action returns, the mode is none, the destination is
\* cleared and no geolocation watch is left registered.
C2_StopReleasesEveryWatch ==
  lastOp.op = "stop" =>
    /\ navigationMode = "none"
    /\ destinationId = Null
    /\ registeredWatches = {}

\* C3: starting static navigation to Y right after live navigation to X was
\* started (and its watch opened) ends in mode = static, destination = Y and
\* no watch registered.
C3_LiveThenStaticReleasesWatch ==
  [][ ( /\ lastOp.op = "live"
        /\ navigationMode = "live"
        /\ locationWatchIdRef # NoWatch
        /\ lastOp'.op = "static"
        /\ capturedCenter # Null )
      => ( /\ navigationMode' = "static"
           /\ destinationId' = lastOp'.place
           /\ registeredWatches' = {} ) ]_vars

\* C4: once the map component is unmounted, no geolocation watch it
\* registered is still registered (so none of its callbacks can fire).
C4_UnmountReleasesEveryWatch ==
  ~mounted => registeredWatches = {}

\* ---------------------------------------------------------- search claims
\* C5: stale search responses never win. Whatever the order in which the
\* responses of search A and of a later search B arrive, the result set held
\* for a search is the one the provider returned for that search's own
\* parameters, so the displayed result set is the current search's; and once
\* the current search has been answered, its result set is displayed.
C5_StaleResponseNeverWins ==
  /\ \A k \in SearchKeys :
       queries[k].data # NoData => queries[k].data.searchParams = k
  /\ searchParams # NoParams =>
       /\ searchResult # NoData => searchResult.searchParams = searchParams
       /\ (~queries[searchParams].fetching /\ ~queries[searchParams].error)
            => searchResult # NoData

\* The response of a superseded search arrives while the newer search's
\* result set is displayed.
C5_Witness ==
  /\ lastOp.op = "searchResponse"
  /\ searchParams # NoParams
  /\ lastOp.params # searchParams
  /\ searchResult # NoData
  /\ Len(searchResult.places) > 0

\* C6: a classification, batch or individual, that resolves after a newer
\* search replaced the result set attaches no analysis to a place of the
\* newer set, same ids or not: every analysis a classification attached to
\* a place of a result set comes from a classification of that result set.
C6_StaleClassificationDropped ==
  \A k \in SearchKeys :
    \A i \in 1..Len(queries[k].data.places) :
      queries[k].data.places[i].aiAnalysis.by = "ai"
        => queries[k].data.places[i].aiAnalysis.of = k

\* C7: classification is at most once per place: no classification call is
\* started (by the batch after a search, by a selection, by analyzePlace)
\* for a place that already carries an aiAnalysis.
C7_ClassifiedAtMostOnce ==
  [][\A m \in mutations' \ mutations :
       m.target = Cur =>
         \A p \in PlacesOf(queries'[m.of].data.places) :
           p.id \in m.sent => p.aiAnalysis = NoAnalysis]_vars

\* C8: while enableAIAnalysis is off no classification call is started,
\* neither the batch call after a completed search nor the individual call
\* on selecting a place.
C8_NoClassificationWhileOff ==
  (lastOp.op \in {"search", "searchResponse", "select"} /\ lastOp.aiCall)
    => enableAIAnalysis

\* C9: a failing classification call never fails the search: the result
\* sets stay as they were (places keep the aiAnalysis they had), searchError
\* stays unset, and no searchPlaces invocation is affected.
C9_ClassificationFailureIsSilent ==
  [][lastOp'.op = "analysisFailed" =>
       /\ queries' = queries
       /\ searchParams' = searchParams
       /\ waiting' = waiting
       /\ (~searchError => ~searchError')]_vars

\* A classification has just failed while a result set with places is
\* displayed without error.
C9_Witness ==
  /\ lastOp.op = "analysisFailed"
  /\ searchParams # NoParams
  /\ ~searchError
  /\ Len(searchResult.places) > 0

\* C10: after place P is selected, from the list or by a click on its
\* marker, the list and the map both highlight P; after null is selected
\* neither highlights anything; the two never show different selections.
C10_SelectionOnBothSurfaces ==
  /\ (lastOp.op \in {"select", "markerClick"} /\ lastOp.place # NoPlace.id)
       => /\ ListHighlighted = {lastOp.place}
          /\ MapHighlighted = {lastOp.place}
  /\ (lastOp.op = "select" /\ lastOp.place = NoPlace.id)
       => /\ ListHighlighted = {}
          /\ MapHighlighted = {}
  /\ ListHighlighted = MapHighlighted

\* ----------------------------------------------------------- filter claims
\* C11: a change of filters while a search is active starts no provider
\* fetch: no query that was idle is fetching after updateFilters.
C11_FilterChangeStartsNoFetch ==
  [][(lastOp'.op = "updateFilters" /\ searchParams # NoParams)
       => \A k \in DOMAIN queries :
            queries'[k].fetching => queries[k].fetching]_vars

\* --------------------------------------------------------- location claims
\* C12: the page requests a GPS fix by itself exactly once: the query's
\* fetch on mount and the mount effect's requestCurrentLocation together
\* call the geolocation capability at most once.
C12_OneAutomaticGpsRequest ==
  gpsCalls["mount"] + gpsCalls["effect"] <= 1

\* C13: while the browser denies the fix and no manual location has been
\* entered, the container has no active location and no search has been
\* invoked or is cached, current or in flight.
C13_DeniedMeansNoSearch ==
  (permission = "denied" /\ manualLocation["container"] = Null)
    => /\ ActiveLocation("container") = Null
       /\ searchCalls = 0
       /\ searchParams = NoParams
       /\ \A k \in DOMAIN queries : queries[k] = IdleQuery

\* Both automatic requests and one from the button were denied, nothing is
\* pending and the container has rendered.
C13_Witness ==
  /\ permission = "denied"
  /\ gpsCalls["effect"] = 1
  /\ gpsCalls["button"] = 1
  /\ gpsInFlight = {}
  /\ ~renderPending
  /\ manualLocation["container"] = Null

\* C14: after a denied fix, a render that follows a render which searched,
\* with no change in between, invokes no further search.
C14_OneSearchPerLocationChange ==
  [][(/\ permission = "denied"
      /\ gpsInFlight = {}
      /\ lastOp.op = "render"
      /\ lastOp.params # NoParams
      /\ lastOp'.op = "render")
       => searchCalls' = searchCalls]_vars

\* C15: a GPS request that was pending when the manual location was set,
\* and settles right after, leaves the container's active location at the
\* manual coordinates.
C15_ManualSupersedesGps ==
  [][(/\ lastOp.op \in {"mapClick", "geocoded"}
      /\ manualLocation["container"] # Null
      /\ lastOp'.op \in {"gpsResolved", "gpsFailed"})
       => ActiveLocation("container")' = ActiveLocation("container")]_vars

\* C16: after 'use GPS' the container no longer uses a manual location
\* and exactly one more geolocation call has been made.
C16_UseGpsClearsOverride ==
  [][lastOp'.op = "useGPS"
       => /\ manualLocation'["container"] = Null
          /\ \E c \in GpsCallers :
               gpsCalls' = [gpsCalls EXCEPT ![c] = @ + 1]]_vars

\* C17: the container and the location input observe the same active
\* location and the same manual-override flag.
C17_OneActiveLocation ==
  /\ ActiveLocation("container") = ActiveLocation("input")
  /\ IsManualLocation("container") = IsManualLocation("input")

C19_TopTenByRatingThenDistance ==
  returned # NoResult =>
    /\ Len(returned.places) <= TopN
    /\ \A i, j \in 1..Len(returned.places) :
         i < j =>
           LET a == returned.places[i]
               b == returned.places[j]
               diff == IF a.rating < b.rating THEN b.rating - a.rating
                                              ELSE a.rating - b.rating
           IN IF diff < 1 THEN a.distance <= b.distance
                          ELSE a.rating > b.rating

\* C20: the filtered view is the subsequence of the fetched places that
\* satisfy every active clause: the rating within [min, max], the price
\* level in the set when the set is not empty, the distance at most
\* max * 1000 meters.
C20_ViewIsTheMatchingSubsequence ==
  LET Satisfies(place) ==
        /\ filters.rating.set
             => /\ place.rating >= filters.rating.min
                /\ place.rating <= filters.rating.max
        /\ (filters.priceLevel.set /\ filters.priceLevel.levels # {})
             => place.priceLevel \in filters.priceLevel.levels
        /\ filters.distance.set
             => place.distance <= filters.distance.max * 1000
  IN view.computed => view.places = SelectSeq(fetched, Satisfies)

\* ------------------------------------------------- classification claims
\* C21: whatever the review count, every function gives a place the bucket
\* of its rating: 4.5 excellent, 4.0 very_good, 3.5 good, 3.0 average, poor
\* below; the functions agree.
C21_BucketsFollowRating ==
  LET bucket == IF buckets.rating >= 450 THEN "excellent"
                ELSE IF buckets.rating >= 400 THEN "very_good"
                ELSE IF buckets.rating >= 350 THEN "good"
                ELSE IF buckets.rating >= 300 THEN "average"
                ELSE "poor"
  IN buckets # NoBuckets
       => /\ buckets.data = bucket
          /\ buckets.badge = bucket
          /\ buckets.metrics = bucket

\* ------------------------------------ useNavigationState and the URL
\* An operation of the hook on its own: the map component stays as mounted.
UrlNote(name, place) ==
  /\ lastOp' = Op(name, place)
  /\ UNCHANGED <<center, locationWatchIdRef, directionsRendererRef,
                 displayedRoute, capturedCenter, stopNavFor,
                 registeredWatches, nextWatchId, mounted, lastAlert,
                 searchVars, filters, locVars, fnVars, classifyVars,
                 mapMarkers, debounce, loader>>

\* useQueryState writes a parameter: null removes it, any other value is
\* written as serialize gives it.
WriteParam(value, serialized) ==
  IF value = Null THEN Null ELSE serialized

\* The query string after both setters ran.
UrlOf(mode, dest) ==
  [nav |-> WriteParam(mode, SerializeNav(mode)),
   destination |-> WriteParam(dest, SerializeDestination(dest))]

\* startNavigation(placeId, mode)
UrlStartNavigation ==
  \E place \in PlaceIds, mode \in NavigationMode :
    /\ UrlNote("start", place)
    /\ destinationId' = place
    /\ navigationMode' = mode
    /\ url' = UrlOf(mode, place)
    /\ UNCHANGED markers

\* stopNavigation()
UrlStopNavigation ==
  /\ UrlNote("stop", Null)
  /\ destinationId' = Null
  /\ navigationMode' = "none"
  /\ url' = UrlOf("none", Null)
  /\ UNCHANGED markers

\* setNavigationMode(mode)
UrlSetNavigationMode ==
  \E mode \in NavigationMode :
    /\ UrlNote("setMode", Null)
    /\ navigationMode' = mode
    /\ url' = UrlOf(mode, destinationId)
    /\ UNCHANGED <<destinationId, markers>>

\* The page is loaded again: both parameters are parsed from the query
\* string, and the markers prop is empty until a search has answered.
UrlReload ==
  /\ UrlNote("reload", Null)
  /\ navigationMode' = ParseNav(url.nav)
  /\ destinationId' = ParseDestination(url.destination)
  /\ markers' = {}
  /\ UNCHANGED url

\* The markers prop changes: currentDestination is looked up again.
UrlMarkersChange ==
  \E ms \in SUBSET PlaceIds :
    /\ ms # markers
    /\ UrlNote("markers", CurrentDestination(ms, destinationId))
    /\ markers' = ms
    /\ UNCHANGED <<navigationMode, destinationId, url>>

\* A link is opened: any query string.
UrlOpenLink ==
  \E nav \in NavParams, dest \in DestParams :
    /\ UrlNote("open", Null)
    /\ url' = [nav |-> nav, destination |-> dest]
    /\ navigationMode' = ParseNav(nav)
    /\ destinationId' = ParseDestination(dest)
    /\ markers' = {}

UrlInit ==
  /\ HookIdle
  /\ AuxIdle

UrlNext ==
  \/ UrlStartNavigation
  \/ UrlStopNavigation
  \/ UrlSetNavigationMode
  \/ UrlReload
  \/ UrlMarkersChange
  \/ UrlOpenLink

UrlSpec == UrlInit /\ [][UrlNext]_vars

\* ------------------------------------------------ the markers on the map
\* The markers prop: one marker for each filtered place.
MarkersOf(places, selected) ==
  {[id |-> p, isSelected |-> selected = p] : p \in places}

\* An operation on the markers alone.
MarkerNote(name, place) ==
  /\ lastOp' = Op(name, place)
  /\ UNCHANGED <<navigationMode, destinationId, center, markers,
                 locationWatchIdRef, directionsRendererRef, displayedRoute,
                 capturedCenter, stopNavFor, registeredWatches, nextWatchId,
                 mounted, lastAlert, searchVars, filters, locVars, fnVars,
                 classifyVars, url, debounce, loader>>

\* The markers effect of MapContainer, run because the markers prop changed:
\* nothing while no map has been created, else the old markers are removed
\* and one is added for each entry.
MapContainerMarkersEffect(m, ms) ==
  IF m.loaded THEN ms ELSE m.rendered

\* The markers effect of the page that uses useMap: addMarkers is called
\* when there is a place and the map is loaded; it removes the old markers
\* and adds the new ones.
AddMarkersEffect(m, ms, loaded) ==
  IF ms # {} /\ loaded THEN ms ELSE m.hookRendered

\* filteredPlaces or the selection changes: both pages derive the markers
\* again and their effects run.
MarkersPropChange ==
  \E places \in SUBSET PlaceIds, selected \in PlaceIds \cup {Null} :
    LET ms == MarkersOf(places, selected)
    IN /\ ms # MarkersOf(mapMarkers.filtered, mapMarkers.selected)
       /\ MarkerNote("markersProp", selected)
       /\ mapMarkers' =
            [mapMarkers EXCEPT
               !.filtered = places,
               !.selected = selected,
               !.rendered = MapContainerMarkersEffect(mapMarkers, ms),
               !.hookRendered = AddMarkersEffect(mapMarkers, ms,
                                                 mapMarkers.hookLoaded)]

\* GoogleMapsLoader resolved: MapContainer creates the map. The markers
\* effect depends on [markers, selectedPlaceType] and does not run.
MapCreated ==
  /\ ~mapMarkers.loaded
  /\ MarkerNote("mapCreated", Null)
  /\ mapMarkers' = [mapMarkers EXCEPT !.loaded = TRUE]

\* useMap created its map: isMapLoaded and addMarkers change, so the page's
\* markers effect runs.
HookMapLoaded ==
  /\ ~mapMarkers.hookLoaded
  /\ MarkerNote("hookMapLoaded", Null)
  /\ mapMarkers' =
       [mapMarkers EXCEPT
          !.hookLoaded = TRUE,
          !.hookRendered =
             AddMarkersEffect(mapMarkers,
                              MarkersOf(mapMarkers.filtered,
                                        mapMarkers.selected), TRUE)]

MarkerInit ==
  /\ HookIdle
  /\ AuxIdle

MarkerNext ==
  \/ MarkersPropChange
  \/ MapCreated
  \/ HookMapLoaded

MarkerSpec == MarkerInit /\ [][MarkerNext]_vars

\* ------------------------------------------------------------ useDebounce
\* The values each use is rendered with: map centers; zoom levels.
DebounceValues(i) == IF i = "center" THEN Coords ELSE {"13", "14", "16"}
\* Object.is on the effect's dependency: a center is a new object at every
\* camera event, a zoom level is a number.
SameDependency(i, old, new) == i = "zoom" /\ old = new
\* The view state useMap starts with.
InitialValue(i) == IF i = "center" THEN "c1" ELSE "13"

\* An operation of one useDebounce instance.
DebounceNote(name, i) ==
  /\ lastOp' = Op(name, i)
  /\ UNCHANGED <<navigationMode, destinationId, center, markers,
                 locationWatchIdRef, directionsRendererRef, displayedRoute,
                 capturedCenter, stopNavFor, registeredWatches, nextWatchId,
                 mounted, lastAlert, searchVars, filters, locVars, fnVars,
                 classifyVars, url, mapMarkers, loader>>

\* A render with a new value whose effect leaves a pending timeout alone.
DebounceRenderKeepsTimer(i) ==
  \E v \in DebounceValues(i) :
    /\ ~SameDependency(i, debounce[i].value, v)
    /\ DebounceNote("render", i)
    /\ debounce' = [debounce EXCEPT
                      ![i].value = v,
                      ![i].timer = IF debounce[i].timer # Null
                                     THEN debounce[i].timer ELSE v]

\* The hook is rendered with a new value: the cleanup of the previous effect
\* clears its timeout and the effect sets one for the new value.
DebounceRender(i) ==
  \E v \in DebounceValues(i) :
    /\ ~SameDependency(i, debounce[i].value, v)
    /\ DebounceNote("render", i)
    /\ debounce' = [debounce EXCEPT ![i].value = v, ![i].timer = v]

\* The delay has passed: the timeout sets debouncedValue to the value its
\* effect closed over. The render that follows passes the same value, so
\* no effect runs.
DebounceTimeout(i) ==
  /\ debounce[i].timer # Null
  /\ DebounceNote("timeout", i)
  /\ debounce' = [debounce EXCEPT ![i].debouncedValue = debounce[i].timer,
                                  ![i].timer = Null]

\* useMap is mounted: useState(value), and the first effect sets a timeout.
DebounceInit ==
  /\ HookIdle
  /\ ClassifyIdle
  /\ url = NoUrl
  /\ mapMarkers = NoMapMarkers
  /\ loader = NoLoader
  /\ debounce = [i \in DebounceUses |->
                   [value |-> InitialValue(i),
                    debouncedValue |-> InitialValue(i),
                    timer |-> InitialValue(i)]]

DebounceNext ==
  \E i \in DebounceUses :
    \/ DebounceRender(i)
    \/ DebounceTimeout(i)

DebounceSpec == DebounceInit /\ [][DebounceNext]_vars

\* A timeout that is set and not cleared is run by the event loop.
DebounceFairSpec ==
  /\ DebounceSpec
  /\ \A i \in DebounceUses : WF_vars(DebounceTimeout(i))

\* ------------------------------------------------------- GoogleMapsLoader
\* An operation of the loader.
LoaderNote(name, caller) ==
  /\ lastOp' = Op(name, caller)
  /\ UNCHANGED <<navigationMode, destinationId, center, markers,
                 locationWatchIdRef, directionsRendererRef, displayedRoute,
                 capturedCenter, stopNavFor, registeredWatches, nextWatchId,
                 mounted, lastAlert, searchVars, filters, locVars, fnVars,
                 classifyVars, url, mapMarkers, debounce>>

\* The caller's await ends: MapContainer sets isGoogleMapsLoaded or mapError.
Settle(callers, promise, outcome) ==
  [c \in LoadCallers |->
     IF callers[c].awaiting = promise
       THEN [awaiting |-> NoPromise, outcome |-> outcome]
       ELSE callers[c]]

\* loadGoogleMaps without the isLoading check: every call made before the
\* API is loaded starts a load of its own.
LoadGoogleMapsUnshared(caller) ==
  LET l == loader
      n == l.injected + 1
  IN /\ l.callers[caller].awaiting = NoPromise
     /\ LoaderNote("load", caller)
     /\ IF l.isLoaded
          THEN loader' = [l EXCEPT
                 !.returned = [promise |-> NoPromise, injected |-> FALSE],
                 !.callers[caller] = [awaiting |-> NoPromise, outcome |-> "ok"]]
          ELSE /\ n <= MaxLoads
               /\ loader' = [l EXCEPT
                    !.isLoading = TRUE,
                    !.loadPromise = n,
                    !.injected = n,
                    !.scripts = @ \cup {n},
                    !.promises[n] = "pending",
                    !.returned = [promise |-> n, injected |-> TRUE],
                    !.callers[caller] = [awaiting |-> n, outcome |-> Null]]

\* GoogleMapsLoader.loadGoogleMaps(), awaited by the caller. The promise
\* numbers count the promises made; a promise made when window.google.maps
\* is already there resolves at once and injects nothing.
LoadGoogleMaps(caller) ==
  LET l == loader
      made == Cardinality({k \in 1..MaxLoads : l.promises[k] # "none"})
      n == made + 1
  IN /\ l.callers[caller].awaiting = NoPromise
     /\ LoaderNote("load", caller)
     /\ IF l.isLoaded
          THEN loader' = [l EXCEPT
                 !.returned = [promise |-> NoPromise, injected |-> FALSE],
                 !.callers[caller] = [awaiting |-> NoPromise, outcome |-> "ok"]]
          ELSE IF l.isLoading /\ l.loadPromise # NoPromise
            THEN loader' = [l EXCEPT
                   !.returned = [promise |-> l.loadPromise, injected |-> FALSE],
                   !.callers[caller] =
                      IF l.promises[l.loadPromise] = "pending"
                        THEN [awaiting |-> l.loadPromise, outcome |-> Null]
                        ELSE [awaiting |-> NoPromise,
                              outcome |-> IF l.promises[l.loadPromise] = "resolved"
                                            THEN "ok" ELSE "failed"]]
          ELSE /\ n <= MaxLoads
               /\ IF l.google
                    THEN loader' = [l EXCEPT
                           !.isLoading = TRUE,
                           !.isLoaded = TRUE,
                           !.loadPromise = n,
                           !.promises[n] = "resolved",
                           !.returned = [promise |-> n, injected |-> FALSE],
                           !.callers[caller] =
                              [awaiting |-> NoPromise, outcome |-> "ok"]]
                    ELSE loader' = [l EXCEPT
                           !.isLoading = TRUE,
                           !.loadPromise = n,
                           !.injected = @ + 1,
                           !.scripts = @ \cup {n},
                           !.promises[n] = "pending",
                           !.returned = [promise |-> n, injected |-> TRUE],
                           !.callers[caller] =
                              [awaiting |-> n, outcome |-> Null]]

\* script.onload: the API is there, or the script ran without defining it.
ScriptOnLoad ==
  \E n \in loader.scripts, defined \in BOOLEAN :
    /\ LoaderNote(IF defined THEN "scriptLoaded" ELSE "scriptEmpty", Null)
    /\ loader' = [loader EXCEPT
         !.google = @ \/ defined,
         !.isLoaded = IF loader.google \/ defined THEN TRUE ELSE @,
         !.isLoading = FALSE,
         !.scripts = @ \ {n},
         !.promises[n] = IF loader.google \/ defined
                           THEN "resolved" ELSE "rejected",
         !.callers = Settle(@, n, IF loader.google \/ defined
                                    THEN "ok" ELSE "failed")]

\* script.onerror
ScriptOnError ==
  \E n \in loader.scripts :
    /\ LoaderNote("scriptError", Null)
    /\ loader' = [loader EXCEPT
         !.isLoading = FALSE,
         !.scripts = @ \ {n},
         !.promises[n] = "rejected",
         !.callers = Settle(@, n, "failed")]

\* The page in the browser before the first call; window.google may have
\* been defined by a script of the page.
LoaderInit ==
  /\ HookIdle
  /\ ClassifyIdle
  /\ url = NoUrl
  /\ mapMarkers = NoMapMarkers
  /\ debounce = NoDebounce
  /\ \E g \in BOOLEAN : loader = [NoLoader EXCEPT !.google = g]

LoaderNext ==
  \/ \E caller \in LoadCallers : LoadGoogleMaps(caller)
  \/ ScriptOnLoad
  \/ ScriptOnError

LoaderSpec == LoaderInit /\ [][LoaderNext]_vars

\* --------------------------------------------- navigation claims, continued
\* C22: a start of static or live navigation made while there is no active
\* location changes neither the mode nor the destination, draws no route and
\* registers no watch.
C22_StartNeedsLocation ==
  [][(center = Null /\ lastOp'.op \in {"static", "live"})
       => UNCHANGED <<navigationMode, destinationId, displayedRoute,
                      directionsRendererRef, locationWatchIdRef,
                      registeredWatches, nextWatchId>>]_vars

\* A start was asked for without an active location and was refused.
C22_Witness ==
  /\ center = Null
  /\ lastOp.op \in {"static", "live"}
  /\ lastAlert = "no-location"
  /\ navigationMode = "none"
  /\ destinationId = Null

\* C23: an error reported by the location watch during live navigation
\* leaves the mode, the destination and the displayed route as they were,
\* and the user is alerted.
C23_WatchErrorKeepsSession ==
  [][(navigationMode = "live" /\ lastOp'.op = "watchError")
       => /\ navigationMode' = "live"
          /\ destinationId' = destinationId
          /\ displayedRoute' = displayedRoute
          /\ directionsRendererRef' = directionsRendererRef
          /\ lastAlert' = "watch"]_vars

\* The watch failed during live navigation with a route on the map.
C23_Witness ==
  /\ lastOp.op = "watchError"
  /\ lastAlert = "watch"
  /\ navigationMode = "live"
  /\ destinationId # Null
  /\ displayedRoute # NoRoute
  /\ mounted

\* C24: a reload that follows a write of the navigation state gives the
\* mode and the destination written; a `nav` parameter that is absent or
\* not a mode parses to none.
C24_UrlRoundTrip ==
  [][/\ (lastOp.op \in {"start", "stop", "setMode"} /\ lastOp'.op = "reload")
          => /\ navigationMode' = navigationMode
             /\ destinationId' = destinationId
     /\ (lastOp'.op \in {"reload", "open"}
           /\ url'.nav \notin {"static", "live"})
          => navigationMode' = "none"]_vars

\* Live navigation to a place was written to the URL and read back.
C24_Witness ==
  /\ lastOp.op = "reload"
  /\ url = [nav |-> "live", destination |-> "p1"]
  /\ navigationMode = "live"
  /\ destinationId = "p1"

\* ------------------------------------- the search query fetched again
\* refetchSearch(), and the refetch of the observed query when the network
\* comes back after its data went stale (refetchOnReconnect): the current
\* query is fetched again; no searchPlaces call awaits the answer, and the
\* selection is left as it is.
RefetchSearch ==
  /\ searchParams # NoParams
  /\ ~queries[searchParams].fetching
  /\ SRecord("refetch", searchParams, NoPlace.id, FALSE)
  /\ queries' = [queries EXCEPT ![searchParams].fetching = TRUE]
  /\ UNCHANGED <<searchParams, selectedPlace, enableAIAnalysis, waiting,
                 mutations>>

RefetchInit == SearchInit

RefetchNext ==
  \/ SearchPlaces
  \/ SearchResponse
  \/ RefetchSearch
  \/ SelectPlace
  \/ MutationSuccess
  \/ ClearSearch

RefetchSpec == RefetchInit /\ [][RefetchNext]_vars

\* ------------------------------------------------ search claims, continued
\* C25: a search that fails discards no result set held from an earlier
\* search, and when the failed search is the current one the hook reports
\* searchError and the list shows the error panel, no place.
C25_FailureKeepsEarlierResults ==
  [][lastOp'.op = "searchFailed"
       => /\ \A k \in DOMAIN queries : queries'[k].data = queries[k].data
          /\ (searchParams # NoParams /\ queries[searchParams].fetching
                /\ ~queries'[searchParams].fetching)
               => (searchError' /\ ListedPlaces' = {})]_vars

\* The current search failed while the result of an earlier search for
\* another location, with places in it, is held.
C25_Witness ==
  /\ lastOp.op = "searchFailed"
  /\ searchError
  /\ ListedPlaces = {}
  /\ \E k \in DOMAIN queries :
       /\ k # searchParams
       /\ queries[k].data # NoData
       /\ Len(queries[k].data.places) > 0

\* C29: a selected place is one of the places of the current search result;
\* after searchPlaces and after clearSearch nothing is selected.
C29_SelectionInCurrentResult ==
  /\ selectedPlace # NoPlace.id => selectedPlace \in IdsOf(searchResult.places)
  /\ lastOp.op \in {"search", "clear"} => selectedPlace = NoPlace.id

\* -------------------------------------------------------- marker claims
\* C26: once a map exists, the markers on it are those of the filtered
\* places with the current selection, none when no place passes the
\* filters: no marker of an earlier set remains.
C26_MarkersAreTheFilteredPlaces ==
  LET ms == MarkersOf(mapMarkers.filtered, mapMarkers.selected)
  IN /\ mapMarkers.loaded => mapMarkers.rendered = ms
     /\ mapMarkers.hookLoaded => mapMarkers.hookRendered = ms

C28_AtMostOneWatch ==
  Cardinality(registeredWatches) <= 1

====
